---- MODULE Spec2Model ----
(***************************************************************************)
(* Safe multi-signature transaction lifecycle of safe-sign-example:        *)
(* SafeClient.executeTransaction (public/app.js), the confirmation         *)
(* threshold gate, the signature blob assembly, gas estimation and the     *)
(* submission of execTransaction.                                          *)
(*                                                                         *)
(* Strings are modelled by what the code reads of them.  An owner address  *)
(* is the sequence of the UTF-16 code units of its hex digits (the common  *)
(* "0x" prefix is left out; <<>> is the empty string).  A signature is a   *)
(* record [pfx, hex]: whether the string starts with "0x", and the number  *)
(* of characters that follow the prefix.                                   *)
(***************************************************************************)
EXTENDS Integers, Sequences, FiniteSets, TLC

\* ---- bounds of the model ------------------------------------------------
MaxConfs == 2          \* longest confirmation list the relay returns
MaxThreshold == 2      \* largest confirmationsRequired the relay returns

\* ---- program constants --------------------------------------------------
SigHexLen == 130       \* app.js:468  sig.length === 130
FallbackGasLimit == 500000   \* app.js:511
GasBufferNum == 120    \* app.js:507  gasLimit.mul(120)
GasBufferDen == 100    \* app.js:507  .div(100)

\* ---- strings ------------------------------------------------------------
\* "AA", "aa", "BB", "bb" and the empty string.
OwnerAA == <<65, 65>>
Owneraa == <<97, 97>>
OwnerBB == <<66, 66>>
Ownerbb == <<98, 98>>
Owners == {<<>>, OwnerAA, Owneraa, OwnerBB}

\* String.prototype.toLowerCase on one code unit / on a string.
ToLowerChar(c) == IF c >= 65 /\ c <= 90 THEN c + 32 ELSE c
toLowerCase(s) == [i \in 1..Len(s) |-> ToLowerChar(s[i])]

\* String.prototype.localeCompare restricted to lower-cased hex strings,
\* where the collation order is the code-unit order: -1, 0 or 1.
localeCompare(a, b) ==
    LET n == IF Len(a) < Len(b) THEN Len(a) ELSE Len(b)
        diff == {i \in 1..n : a[i] # b[i]}
    IN  IF diff = {}
        THEN IF Len(a) < Len(b) THEN -1 ELSE IF Len(a) > Len(b) THEN 1 ELSE 0
        ELSE LET i == CHOOSE k \in diff : \A j \in diff : k <= j
             IN  IF a[i] < b[i] THEN -1 ELSE 1

\* Signature strings: "", "0x", 130 hex chars with and without prefix,
\* and a 128-character one with prefix.
Sigs == {[pfx |-> FALSE, hex |-> 0], [pfx |-> TRUE, hex |-> 0],
         [pfx |-> TRUE, hex |-> SigHexLen], [pfx |-> FALSE, hex |-> SigHexLen],
         [pfx |-> TRUE, hex |-> SigHexLen - 2]}

\* JavaScript truthiness of a string: non-empty.
SigTruthy(sig) == sig.pfx \/ sig.hex > 0
OwnerTruthy(owner) == Len(owner) > 0

Confirmations == [owner : Owners, signature : Sigs]

SeqsUpTo(S, n) == UNION {[1..k -> S] : k \in 0..n}

\* The relay's answer to GET multisig-transactions/{safeTxHash}/ as far as
\* executeTransaction reads it.  confirmationsRequired 0 stands for a
\* missing or zero field (both falsy).
TxDatas == [confirmationsRequired : 0..MaxThreshold,
            confirmations : SeqsUpTo(Confirmations, MaxConfs),
            isExecuted : BOOLEAN]

NoTx == [confirmationsRequired |-> 0, confirmations |-> <<>>, isExecuted |-> FALSE]

GasEstimates == {1, 4, 21000}

\* ---- configuration values ------------------------------------------------
\* A URL is modelled by its text; the code reads only whether it is empty.
GoodUrl == "https://service.example/"
TxServiceUrls == {"", GoodUrl}
RpcUrls == {"", GoodUrl}

\* An address or a key is modelled by what the checks read of it: whether
\* it starts with "0x", the number of characters after that prefix, and
\* whether these are all hex digits.
HexText(p, n, h) == [pfx |-> p, body |-> n, hex |-> h]
EmptyText == HexText(FALSE, 0, TRUE)
AddrLen == 40          \* part_001:262  /^0x[a-fA-F0-9]{40}$/
KeyLen == 64           \* app.js:744  privateKey.length < 64
GoodAddress == HexText(TRUE, AddrLen, TRUE)
GoodKey == HexText(TRUE, KeyLen, TRUE)
\* "", "0x1234" and a 40-digit address.
Addresses == {EmptyText, HexText(TRUE, 4, TRUE), GoodAddress}
\* "", ten digits, 64 digits without prefix, and a 64-digit key.
Keys == {EmptyText, HexText(FALSE, 10, TRUE), HexText(FALSE, KeyLen, TRUE), GoodKey}

TextLength(t) == t.body + (IF t.pfx THEN 2 ELSE 0)
TextTruthy(t) == TextLength(t) > 0

Forms == [txServiceUrl : TxServiceUrls, rpcUrl : RpcUrls,
          safeAddress : Addresses, privateKey : Keys]

EmptyForm == [txServiceUrl |-> "", rpcUrl |-> "", safeAddress |-> EmptyText,
              privateKey |-> EmptyText]

\* No configuration object (null), no item in localStorage.
NoConfig == <<>>

VARIABLES
    pc,          \* position of SafeClient.executeTransaction
    rpcUrl,      \* this.rpcUrl is set
    hasKey,      \* privateKey || this.privateKey is set
    txData,      \* the relay's transaction details
    signatures,  \* the blob: the chunks appended after "0x"
    warnings,    \* confirmations reported by console.warn
    gasLimit,    \* the gas limit handed to execTransaction
    estFailed,   \* the catch branch of gas estimation was taken
    txHash,      \* what getTransactionHash returned: "none", "safeTxHash"
                 \* (the hash the call was made with) or "other"
    estimate,    \* the gas estimate returned (0: none)
    chainCalls,  \* calls made on the Safe contract, in order
    result,      \* "none", "success" or the error thrown
    shown,       \* what SafeManager.executeTransaction passes to showError
    mgr,         \* the SafeManager loaded: "none", "js", "ts", "ts2"
    sdk,         \* TypeScript managers: this.safeClient is set
    refreshing,  \* calls of refreshPendingTransactions awaiting their list
    pendingTransactions,  \* this.pendingTransactions
    cards,       \* the cards rendered by renderPendingTransactions
    refreshError, \* the message the last refresh passed to showError
    propPc,      \* position of the propose call
    propPath,    \* "js" (send-transactions.js send) or "ts" (proposeTransaction)
    propSent,    \* propose requests sent to the relay by this call
    propAnswers, \* the relay's answers to them, in order
    propCreated, \* transactions the relay created for this call
    propError,   \* the error handed to the caller of the propose call
    relayCall,   \* the relay call last made
    relayPc,     \* "idle", "waiting" or "answered"
    relayResp,   \* the relay's answer to it
    relayError,  \* the error that call handed to its caller
    relayKey,    \* the private key the client held when it made the call
    relayReq,    \* the HTTP request of the call: its URL parts and body
    confPc,      \* position of SafeManager.confirmTransaction
    confSigner,  \* the address of the private key it signs with
    confTx,      \* the cached transaction whose Confirm button was clicked
    confPosts,   \* requests this call sent to the confirmations endpoint
    confBody,    \* the fields of the body of its POST
    confShown,   \* the message this call showed
    form,        \* the configuration form of the page
    config,      \* the configuration held by the manager and its client
    store,       \* the item of the configuration in localStorage
    connPc,      \* position of connectToSafe
    netCalls,    \* network calls (relay, RPC) made by the last connect
    connShown,   \* the message the last save or connect showed
    hashPath,    \* the hash code that ran: "none", "js" (send) or "ts"
    hashInputs,  \* the inputs of its runs, in order
    hashDigests, \* the digests it returned for them, in order
    timers,      \* the interval timers of refreshes that are active (their ids)
    refreshInterval, \* this.refreshInterval: a timer id, 0 for null
    nextTimer,   \* the id the next setInterval returns
    autoStopped, \* polling was stopped, paused or cleaned up and not started since
    tickAfterStop, \* a timer started a refresh while autoStopped
    safeInfo,    \* this.safeInfo of the TypeScript manager, <<>> for null
    safeNonce,   \* the nonce of the Safe at the relay and on chain
    sinceRead,   \* successful executes and proposes since safeInfo was read
    staleUse,    \* this.safeInfo was used with sinceRead > 0
    reconnects,  \* calls of initializeApp started from within connectToSafe
    infoSource,  \* where the Safe info of the last connect came from: "none", "sdk", "relay", "mock" or "failed"
    scriptPc,    \* position of the send-transactions script: "idle", "sent", "done"
    scriptTarget, \* the safeTxHash of the result of send ("" for none)
    scriptPk,    \* the key handed to confirm is not empty
    scriptList,  \* the results of getPendingTransactions in confirm
    scriptConfirmed, \* the safeTxHashes handed to safeClient.confirm, in order
    started,     \* calls of refreshPendingTransactions so far, numbered in order
    inflight,    \* the numbers of the calls awaiting their list
    storedFrom   \* the number of the call that last wrote this.pendingTransactions

execVars == <<pc, rpcUrl, hasKey, txData, signatures, warnings, gasLimit,
              estFailed, txHash, estimate, chainCalls, result, shown>>

mgrVars == <<mgr, sdk, refreshing, pendingTransactions, cards, refreshError>>

propVars == <<propPc, propPath, propSent, propAnswers, propCreated, propError>>

relayVars == <<relayCall, relayPc, relayResp, relayError, relayKey, relayReq>>

confVars == <<confPc, confSigner, confTx, confPosts, confBody, confShown>>

cfgVars == <<form, config, store, connPc, netCalls, connShown>>

hashVars == <<hashPath, hashInputs, hashDigests>>

timerVars == <<timers, refreshInterval, nextTimer, autoStopped, tickAfterStop>>

infoVars == <<safeInfo, safeNonce, sinceRead, staleUse>>

connVars == <<reconnects, infoSource>>

scriptVars == <<scriptPc, scriptTarget, scriptPk, scriptList, scriptConfirmed>>

orderVars == <<started, inflight, storedFrom>>

vars == <<execVars, mgrVars, propVars, relayVars, confVars, cfgVars, hashVars, timerVars, infoVars, connVars, scriptVars, orderVars>>

notExecVars == <<mgrVars, propVars, relayVars, confVars, cfgVars, hashVars, timerVars, infoVars, connVars, scriptVars, orderVars>>
notMgrVars == <<execVars, propVars, relayVars, confVars, cfgVars, hashVars, timerVars, infoVars, connVars, scriptVars, orderVars>>
notPropVars == <<execVars, mgrVars, relayVars, confVars, cfgVars, hashVars, timerVars, infoVars, connVars, scriptVars, orderVars>>
notRelayVars == <<execVars, mgrVars, propVars, confVars, cfgVars, hashVars, timerVars, infoVars, connVars, scriptVars, orderVars>>
notMgrConfVars == <<execVars, propVars, relayVars, cfgVars, hashVars, timerVars, infoVars, connVars, scriptVars, orderVars>>
notMgrCfgVars == <<execVars, propVars, relayVars, confVars, hashVars, timerVars, infoVars, connVars, scriptVars, orderVars>>
notHashVars == <<execVars, mgrVars, propVars, relayVars, confVars, cfgVars, timerVars, infoVars, connVars, scriptVars, orderVars>>
notOrderVars == <<execVars, mgrVars, propVars, relayVars, confVars, cfgVars, hashVars, timerVars, infoVars, connVars, scriptVars>>
notMgrOrderVars == <<execVars, propVars, relayVars, confVars, cfgVars, hashVars, timerVars, infoVars, connVars, scriptVars>>
notScriptVars == <<execVars, mgrVars, propVars, relayVars, confVars, cfgVars, hashVars, timerVars, infoVars, connVars, orderVars>>
notMgrScriptVars == <<execVars, propVars, relayVars, confVars, cfgVars, hashVars, timerVars, infoVars, connVars, orderVars>>
notConnVars == <<execVars, mgrVars, propVars, relayVars, confVars, cfgVars, hashVars, timerVars, infoVars, scriptVars, orderVars>>
notMgrConnVars == <<execVars, propVars, relayVars, confVars, cfgVars, hashVars, timerVars, infoVars, scriptVars, orderVars>>
notMgrCfgConnVars == <<execVars, propVars, relayVars, confVars, hashVars, timerVars, infoVars, scriptVars, orderVars>>
notInfoVars == <<execVars, mgrVars, propVars, relayVars, confVars, cfgVars, hashVars, timerVars, connVars, scriptVars, orderVars>>
notMgrInfoVars == <<execVars, propVars, relayVars, confVars, cfgVars, hashVars, timerVars, connVars, scriptVars, orderVars>>
notTimerVars == <<execVars, mgrVars, propVars, relayVars, confVars, cfgVars, hashVars, infoVars, connVars, scriptVars, orderVars>>
notMgrTimerVars == <<execVars, propVars, relayVars, confVars, cfgVars, hashVars, infoVars, connVars, scriptVars, orderVars>>

\* An error value: the parts of the HTTP response its message carries
\* (status 0, statusText "" and body "" for a part it does not carry).
NoError == [text |-> "", status |-> 0, statusText |-> "", body |-> ""]
ErrorValue(t, st, stx, b) == [text |-> t, status |-> st, statusText |-> stx, body |-> b]

\* HTTP answers of the relay.
StatusTextOf(st) ==
    IF st = 400 THEN "Bad Request"
    ELSE IF st = 404 THEN "Not Found"
    ELSE IF st = 500 THEN "Internal Server Error" ELSE "OK"
Bodies == {"{\"nonMultisigTransactionData\": true}", "nonce too low", "<html>"}
ErrorStatuses == {400, 404, 500}
OkAnswer == [ok |-> TRUE, status |-> 200, statusText |-> "OK", body |-> "{}"]
ErrorAnswers ==
    {[ok |-> FALSE, status |-> st, statusText |-> StatusTextOf(st), body |-> b] :
        st \in ErrorStatuses, b \in Bodies}
Answers == {OkAnswer} \cup ErrorAnswers

Init ==
    /\ pc = "idle"
    /\ rpcUrl = FALSE
    /\ hasKey = FALSE
    /\ txData = NoTx
    /\ signatures = <<>>
    /\ warnings = <<>>
    /\ gasLimit = 0
    /\ estFailed = FALSE
    /\ txHash = "none"
    /\ estimate = 0
    /\ chainCalls = <<>>
    /\ result = "none"
    /\ shown = "none"
    /\ mgr = "none"
    /\ sdk = FALSE
    /\ refreshing = 0
    /\ pendingTransactions = <<>>
    /\ cards = <<>>
    /\ refreshError = "none"
    /\ propPc = "idle"
    /\ propPath = "none"
    /\ propSent = 0
    /\ propAnswers = <<>>
    /\ propCreated = 0
    /\ propError = NoError
    /\ relayCall = "none"
    /\ relayPc = "idle"
    /\ relayResp = OkAnswer
    /\ relayError = NoError
    /\ relayKey = "none"
    /\ relayReq = [url |-> <<>>, body |-> <<>>]
    /\ confPc = "idle"
    /\ confSigner = <<>>
    /\ confTx = NoTx
    /\ confPosts = 0
    /\ confBody = {}
    /\ confShown = "none"
    /\ form = EmptyForm
    /\ config = NoConfig
    /\ store = NoConfig
    /\ connPc = "idle"
    /\ netCalls = <<>>
    /\ connShown = "none"
    /\ hashPath = "none"
    /\ hashInputs = <<>>
    /\ hashDigests = <<>>
    /\ timers = {}
    /\ refreshInterval = 0
    /\ nextTimer = 1
    /\ autoStopped = FALSE
    /\ tickAfterStop = FALSE
    /\ safeInfo = <<>>
    /\ safeNonce = 0
    /\ sinceRead = 0
    /\ staleUse = FALSE
    /\ reconnects = 0
    /\ infoSource = "none"
    /\ scriptPc = "idle"
    /\ scriptTarget = ""
    /\ scriptPk = FALSE
    /\ scriptList = <<>>
    /\ scriptConfirmed = <<>>
    /\ started = 0
    /\ inflight = {}
    /\ storedFrom = 0

\* ---- signature assembly (app.js 453-473) ---------------------------------
\* confirmations.filter(c => c.signature && c.owner)
validConfirmationsOf(confirmations) ==
    SelectSeq(confirmations,
              LAMBDA c : SigTruthy(c.signature) /\ OwnerTruthy(c.owner))

\* (a, b) => a.owner.toLowerCase().localeCompare(b.owner.toLowerCase())
compareOwners(a, b) == localeCompare(toLowerCase(a.owner), toLowerCase(b.owner))

\* Array.prototype.sort with that comparator (a stable sort).
InsertSorted(s, x) ==
    LET k == Cardinality({i \in 1..Len(s) : compareOwners(s[i], x) <= 0})
    IN  SubSeq(s, 1, k) \o <<x>> \o SubSeq(s, k + 1, Len(s))

RECURSIVE SortByOwner(_)
SortByOwner(s) ==
    IF s = <<>> THEN <<>>
    ELSE InsertSorted(SortByOwner(SubSeq(s, 1, Len(s) - 1)), s[Len(s)])

\* Mutant: the length is tested before the "0x" prefix is sliced off.
SigAcceptedUnsliced(sig) == (IF sig.pfx THEN sig.hex + 2 ELSE sig.hex) = SigHexLen

\* The length test of the loop body: sig.length === 130 after the prefix
\* has been sliced off.
SigAccepted(sig) == sig.hex = SigHexLen

\* The loop: one chunk per accepted signature, nothing in between.
BuildSignatures(sorted) ==
    LET kept == SelectSeq(sorted, LAMBDA c : SigAccepted(c.signature))
    IN  [i \in 1..Len(kept) |-> [owner |-> kept[i].owner, hex |-> kept[i].signature.hex]]

SkippedOf(sorted) == SelectSeq(sorted, LAMBDA c : ~SigAccepted(c.signature))

RECURSIVE SumHex(_)
SumHex(chunks) == IF chunks = <<>> THEN 0 ELSE Head(chunks).hex + SumHex(Tail(chunks))

\* Characters of the signatures string after its "0x".
BlobHexLen(chunks) == SumHex(chunks)

\* ---- SafeClient.executeTransaction (app.js 375-547) ----------------------
\* txData.confirmationsRequired || 1
confirmationsRequiredOf(tx) ==
    IF tx.confirmationsRequired = 0 THEN 1 ELSE tx.confirmationsRequired

\* txData.confirmations ? txData.confirmations.length : 0
confirmationsCountOf(tx) == Len(tx.confirmations)

\* Mutant: the threshold test is off by one.
InsufficientOffByOne(tx) ==
    confirmationsCountOf(tx) + 1 < confirmationsRequiredOf(tx)

\* The threshold test of line 399.
InsufficientConfirmations(tx) ==
    confirmationsCountOf(tx) < confirmationsRequiredOf(tx)

\* The catch of SafeClient.executeTransaction rethrows; the catch of
\* SafeManager.executeTransaction (app.js 1138-1141) shows the message.
Throw(err) ==
    /\ pc' = "done"
    /\ result' = err
    /\ shown' = "Error executing transaction: " \o err

\* A call of executeTransaction: the GET for the transaction is sent.
ExecStart ==
    /\ UNCHANGED notExecVars
    /\ pc \in {"idle", "done"}
    /\ \E r \in BOOLEAN, k \in BOOLEAN :
          /\ rpcUrl' = r
          /\ hasKey' = k
    /\ pc' = "fetch"
    /\ txData' = NoTx
    /\ signatures' = <<>>
    /\ warnings' = <<>>
    /\ gasLimit' = 0
    /\ estFailed' = FALSE
    /\ txHash' = "none"
    /\ estimate' = 0
    /\ chainCalls' = <<>>
    /\ result' = "none"
    /\ shown' = "none"

\* The relay answers with a non-2xx status (app.js 388-390).
FetchNotOk ==
    /\ UNCHANGED notExecVars
    /\ pc = "fetch"
    /\ Throw("Failed to get transaction details")
    /\ UNCHANGED <<rpcUrl, hasKey, txData, signatures, warnings, gasLimit,
                   estFailed, txHash, estimate, chainCalls>>

\* The relay answers with the transaction: the checks of 395-414, then
\* the first chain call, safeContract.nonce().
FetchOk ==
    /\ UNCHANGED notExecVars
    /\ pc = "fetch"
    /\ \E tx \in TxDatas :
          /\ txData' = tx
          /\ IF InsufficientConfirmations(tx)
                THEN Throw("Insufficient confirmations") /\ UNCHANGED chainCalls
             ELSE IF tx.isExecuted
                THEN Throw("Transaction already executed") /\ UNCHANGED chainCalls
             ELSE IF ~rpcUrl
                THEN Throw("RPC URL not configured") /\ UNCHANGED chainCalls
             ELSE IF ~hasKey
                THEN Throw("Private key not configured") /\ UNCHANGED chainCalls
             ELSE /\ pc' = "nonce"
                  /\ chainCalls' = Append(chainCalls, "nonce")
                  /\ UNCHANGED <<result, shown>>
    /\ UNCHANGED <<rpcUrl, hasKey, signatures, warnings, gasLimit, estFailed, txHash, estimate>>

\* nonce() returns: getTransactionHash is called (app.js 434-449).
NonceOk ==
    /\ UNCHANGED notExecVars
    /\ pc = "nonce"
    /\ pc' = "hash"
    /\ chainCalls' = Append(chainCalls, "getTransactionHash")
    /\ UNCHANGED <<rpcUrl, hasKey, txData, signatures, warnings, gasLimit,
                   estFailed, txHash, estimate, result, shown>>

\* nonce() or getTransactionHash() rejects (RPC failure).
ReadFails ==
    /\ UNCHANGED notExecVars
    /\ pc \in {"nonce", "hash"}
    /\ Throw("Chain read failed")
    /\ UNCHANGED <<rpcUrl, hasKey, txData, signatures, warnings, gasLimit,
                   estFailed, txHash, estimate, chainCalls>>

\* getTransactionHash returns the hash the call was made with or another
\* one; it is logged (438-450), the blob is built (453-473) and gas
\* estimation is called (493).
HashOk ==
    /\ UNCHANGED notExecVars
    /\ pc = "hash"
    /\ LET sorted == SortByOwner(validConfirmationsOf(txData.confirmations))
       IN  /\ signatures' = BuildSignatures(sorted)
           /\ warnings' = SkippedOf(sorted)
    /\ \E h \in {"safeTxHash", "other"} : txHash' = h
    /\ pc' = "estimate"
    /\ chainCalls' = Append(chainCalls, "estimateGas")
    /\ UNCHANGED <<rpcUrl, hasKey, txData, gasLimit, estFailed, estimate,
                   result, shown>>

\* Mutant: the division is done before the multiplication.
WithBufferDivFirst(g) == (g \div GasBufferDen) * GasBufferNum

\* gasLimit.mul(120).div(100)
WithBuffer(g) == (g * GasBufferNum) \div GasBufferDen

\* Mutant: the catch of the gas estimation leaves a smaller default.
GasOnEstimateErrorSmall == FallbackGasLimit \div 10

\* What the catch of the gas estimation leaves in gasLimit (508-512).
GasOnEstimateError == FallbackGasLimit

\* Gas estimation returns g: the buffered limit is used and
\* execTransaction is sent (505-529).
EstimateOk ==
    /\ UNCHANGED notExecVars
    /\ pc = "estimate"
    /\ \E g \in GasEstimates :
          /\ estimate' = g
          /\ gasLimit' = WithBuffer(g)
    /\ pc' = "submit"
    /\ chainCalls' = Append(chainCalls, "execTransaction")
    /\ UNCHANGED <<rpcUrl, hasKey, txData, signatures, warnings, estFailed,
                   txHash, result, shown>>

\* Gas estimation rejects: the catch sets the default and execution goes on.
EstimateFails ==
    /\ UNCHANGED notExecVars
    /\ pc = "estimate"
    /\ estFailed' = TRUE
    /\ UNCHANGED <<txHash, estimate>>
    /\ gasLimit' = GasOnEstimateError
    /\ pc' = "submit"
    /\ chainCalls' = Append(chainCalls, "execTransaction")
    /\ UNCHANGED <<rpcUrl, hasKey, txData, signatures, warnings, result, shown>>

\* execTransaction is accepted by the node: tx.wait() (531-534).
SubmitOk ==
    /\ UNCHANGED notExecVars
    /\ pc = "submit"
    /\ pc' = "wait"
    /\ UNCHANGED <<rpcUrl, hasKey, txData, signatures, warnings, gasLimit,
                   estFailed, txHash, estimate, chainCalls, result, shown>>

\* execTransaction or tx.wait() rejects (revert, RPC failure).
SendFails ==
    /\ UNCHANGED notExecVars
    /\ pc \in {"submit", "wait"}
    /\ Throw("Chain transaction failed")
    /\ UNCHANGED <<rpcUrl, hasKey, txData, signatures, warnings, gasLimit,
                   estFailed, txHash, estimate, chainCalls>>

\* The receipt arrives: success (537-541, 1132-1134).
WaitOk ==
    /\ UNCHANGED notExecVars
    /\ pc = "wait"
    /\ pc' = "done"
    /\ result' = "success"
    /\ shown' = "Transaction executed successfully!"
    /\ UNCHANGED <<rpcUrl, hasKey, txData, signatures, warnings, gasLimit,
                   estFailed, txHash, estimate, chainCalls>>

Next ==
    \/ ExecStart
    \/ FetchNotOk
    \/ FetchOk
    \/ NonceOk
    \/ ReadFails
    \/ HashOk
    \/ EstimateOk
    \/ EstimateFails
    \/ SubmitOk
    \/ SendFails
    \/ WaitOk

Spec == Init /\ [][Next]_vars

\* The steps of executeTransaction that do happen: the relay's fetch and the
\* provider's calls settle (a response or an error).  tx.wait() of line 534
\* is called without a timeout and settles only when a receipt arrives or
\* the transaction is replaced, so WaitOk and SendFails carry no fairness.
ExecSettles ==
    \/ FetchNotOk
    \/ FetchOk
    \/ NonceOk
    \/ HashOk
    \/ EstimateOk
    \/ EstimateFails
    \/ SubmitOk

SpecExecLive == Spec /\ WF_vars(ExecSettles)

\* ---- SafeManager.refreshPendingTransactions -------------------------------
MaxPending == 1        \* longest transaction list the relay returns
MaxInflight == 2       \* most refresh calls awaiting their list at a time

GoodSig == [pfx |-> TRUE, hex |-> SigHexLen]
ConfBy(o) == [owner |-> o, signature |-> GoodSig]

ListTx(h, e, r, c) ==
    [safeTxHash |-> h, isExecuted |-> e, confirmationsRequired |-> r,
     confirmations |-> c]

\* The transactions of a list response.  safeTxHash "" and
\* confirmationsRequired 0 stand for missing (falsy) fields.  In turn: one
\* of two confirmations; one owner confirming twice in two spellings; two
\* owners; an executed transaction; a transaction without hash; a
\* transaction without confirmationsRequired.
ListTxs ==
    {ListTx("0xh1", FALSE, 2, <<ConfBy(OwnerAA)>>),
     ListTx("0xh2", FALSE, 2, <<ConfBy(OwnerAA), ConfBy(Owneraa)>>),
     ListTx("0xh3", FALSE, 2, <<ConfBy(OwnerBB), ConfBy(OwnerAA)>>),
     ListTx("0xh4", TRUE, 2, <<ConfBy(OwnerAA), ConfBy(OwnerBB)>>),
     ListTx("", FALSE, 1, <<ConfBy(OwnerAA)>>),
     ListTx("0xh5", FALSE, 0, <<>>)}

\* The shapes of a 2xx answer: a bare array, {results: [...]},
\* {data: [...]}, and anything else.
Responses ==
    [shape : {"array", "results", "data"}, txs : SeqsUpTo(ListTxs, MaxPending)]
    \cup {[shape |-> "other", txs |-> <<>>]}

\* app.js 846-857: tx && tx.safeTxHash && !tx.isExecuted
KeepPending(tx) == tx.safeTxHash # "" /\ ~tx.isExecuted

\* app.js 846-857: the list stored from a response.
StoredJs(resp) ==
    IF resp.shape \in {"array", "results"}
    THEN SelectSeq(resp.txs, KeepPending)
    ELSE <<>>

\* part_001 535-570: convertSafeTransactionFormat, on the fields modelled.
convertSafeTransactionFormat(tx) ==
    [tx EXCEPT !.confirmationsRequired =
                  IF tx.confirmationsRequired = 0 THEN 1 ELSE tx.confirmationsRequired]

\* part_001 515-530 and 2541-2556: getPendingTransactionsFallback returns
\* data.results || [].
FallbackList(resp) == IF resp.shape = "results" THEN resp.txs ELSE <<>>

\* part_001 480-501: the list stored by the first TypeScript manager.
StoredTs(resp, withSdk) ==
    IF withSdk
    THEN IF resp.shape \in {"results", "array"}
         THEN [i \in 1..Len(resp.txs) |-> convertSafeTransactionFormat(resp.txs[i])]
         ELSE <<>>
    ELSE FallbackList(resp)

\* part_001 2506-2527: the list stored by the second TypeScript manager.
StoredTs2(resp, withSdk) ==
    IF withSdk
    THEN IF resp.shape \in {"array", "results", "data"} THEN resp.txs ELSE <<>>
    ELSE FallbackList(resp)

\* renderTransactionCard (app.js 969-987, part_001 672-698): the status
\* line and the Execute button of one card.
isConfirmed(tx) ==
    Len(tx.confirmations)
      >= (IF tx.confirmationsRequired = 0 THEN 1 ELSE tx.confirmationsRequired)

canExecute(tx) == isConfirmed(tx) /\ ~tx.isExecuted

renderTransactionCard(tx) ==
    [tx |-> tx,
     status |-> IF tx.isExecuted THEN "Executed"
                ELSE IF isConfirmed(tx) THEN "Ready to Execute" ELSE "Pending",
     executeButton |-> canExecute(tx) /\ tx.safeTxHash # ""]

\* renderPendingTransactions: app.js 901-903 renders the transactions with
\* a safeTxHash, part_001 603-605 every transaction.
renderPendingTransactions(m, txs) ==
    LET valid == IF m = "js" THEN SelectSeq(txs, LAMBDA tx : tx.safeTxHash # "")
                 ELSE txs
    IN  [i \in 1..Len(valid) |-> renderTransactionCard(valid[i])]

\* A SafeManager is constructed and connected (with or without SDK client).
PageLoad ==
    /\ UNCHANGED notMgrVars
    /\ \E m \in {"js", "ts", "ts2"}, k \in BOOLEAN :
          /\ mgr' = m
          /\ sdk' = (m = "js" \/ k)
    /\ refreshing' = 0
    /\ pendingTransactions' = <<>>
    /\ cards' = <<>>
    /\ refreshError' = "none"

\* refreshPendingTransactions is called (by the interval timer of
\* startAutoRefresh, by connect or by the Refresh button) and awaits the
\* list.  Nothing in it looks at a call that is still waiting.
RefreshStart ==
    /\ UNCHANGED notMgrVars
    /\ mgr # "none"
    /\ refreshing < MaxInflight
    /\ refreshing' = refreshing + 1
    /\ UNCHANGED <<mgr, sdk, pendingTransactions, cards, refreshError>>

\* The list of one waiting call arrives: it is stored and rendered.
RefreshResponse ==
    /\ UNCHANGED notMgrVars
    /\ refreshing > 0
    /\ \E resp \in Responses :
          LET stored == IF mgr = "js" THEN StoredJs(resp)
                        ELSE IF mgr = "ts" THEN StoredTs(resp, sdk)
                        ELSE StoredTs2(resp, sdk)
          IN  /\ pendingTransactions' = stored
              /\ cards' = renderPendingTransactions(mgr, stored)
    /\ refreshing' = refreshing - 1
    /\ UNCHANGED <<mgr, sdk, refreshError>>

\* Mutant: the catch of a failed refresh also stops the timer.
RefreshFailsStopsTimer ==
    /\ UNCHANGED notMgrTimerVars
    /\ refreshing > 0
    /\ timers' = {}
    /\ refreshInterval' = 0
    /\ UNCHANGED <<nextTimer, autoStopped, tickAfterStop>>
    /\ IF mgr = "js"
       THEN /\ pendingTransactions' = <<>>
            /\ cards' = <<>>
            /\ UNCHANGED refreshError
       ELSE /\ refreshError' = "Failed to load pending transactions"
            /\ UNCHANGED <<pendingTransactions, cards>>
    /\ refreshing' = refreshing - 1
    /\ UNCHANGED <<mgr, sdk>>

\* The fetch or the SDK call fails: app.js 861-865 empties the list and
\* renders it, part_001 506-509 and 2532-2535 show an error.
RefreshFails ==
    /\ UNCHANGED notMgrVars
    /\ refreshing > 0
    /\ IF mgr = "js"
       THEN /\ pendingTransactions' = <<>>
            /\ cards' = <<>>
            /\ UNCHANGED refreshError
       ELSE /\ refreshError' = "Failed to load pending transactions"
            /\ UNCHANGED <<pendingTransactions, cards>>
    /\ refreshing' = refreshing - 1
    /\ UNCHANGED <<mgr, sdk>>

NextRefresh ==
    \/ PageLoad
    \/ RefreshStart
    \/ RefreshResponse
    \/ RefreshFails

SpecRefresh == Init /\ [][NextRefresh]_vars

\* ---- SafeManager.confirmTransaction ----------------------------------------
\* app.js 1041-1097 with SafeClient.confirm (141-258); part_001 754-800 and
\* 2740-2790.

\* The addresses a private key stands for; <<>> is an empty key field.
Signers == {<<>>, OwnerAA, Owneraa, OwnerBB}

\* part_001 678-681: confirmations.some(conf => conf.owner.toLowerCase() ===
\* currentSignerAddress.toLowerCase())
hasCurrentSignerConfirmed(who, tx) ==
    \E i \in DOMAIN tx.confirmations :
        toLowerCase(tx.confirmations[i].owner) = toLowerCase(who)

\* canConfirm of renderTransactionCard: app.js 973, part_001 683.
canConfirm(m, who, tx) ==
    /\ ~isConfirmed(tx)
    /\ ~tx.isExecuted
    /\ m # "js" => ~hasCurrentSignerConfirmed(who, tx)

\* The message the catch of app.js 1073-1095 shows for an error of
\* SafeClient.confirm on a response with this status.
ConfirmErrorShown(st) ==
    IF st = 400 THEN "Invalid request - check transaction hash and private key"
    ELSE IF st = 404 THEN "Transaction not found"
    ELSE "Server error - please try again later"

\* The Confirm button of a card is clicked.  app.js: without a private key
\* the call returns (1047-1051); when the wallet cannot be made of the key
\* or signing fails, SafeClient.confirm throws (188-191); otherwise the
\* confirmation {signature, owner} is posted (196-221).  part_001: with an
\* SDK client safeClient.confirm is called (759-761), otherwise
\* confirmTransactionFallback signs and posts {signature} (780-793).
ConfirmClick ==
    /\ UNCHANGED notMgrConfVars
    /\ UNCHANGED mgrVars
    /\ mgr # "none"
    /\ confPc \in {"idle", "done"}
    /\ \E i \in DOMAIN cards, who \in Signers, signs \in BOOLEAN :
          LET tx == cards[i].tx IN
          /\ tx.safeTxHash # ""
          /\ mgr # "js" => who # <<>>
          /\ canConfirm(mgr, who, tx)
          /\ confSigner' = who
          /\ confTx' = tx
          /\ IF mgr = "js" /\ who = <<>>
             THEN /\ confPc' = "done"
                  /\ confPosts' = 0
                  /\ confBody' = {}
                  /\ confShown' = "none"
             ELSE IF ~signs /\ (mgr = "js" \/ ~sdk)
             THEN /\ confPc' = "done"
                  /\ confPosts' = 0
                  /\ confBody' = {}
                  /\ confShown' = IF mgr = "js"
                                  THEN "Invalid private key or signature generation failed"
                                  ELSE "Failed to confirm transaction"
             ELSE /\ confPc' = "post"
                  /\ confPosts' = 1
                  /\ confBody' = IF mgr = "js" THEN {"signature", "owner"}
                                 ELSE IF sdk THEN {"safeTxHash"}
                                 ELSE {"signature"}
                  /\ confShown' = "none"

\* The relay accepts the confirmation: the call goes on to
\* refreshPendingTransactions (app.js 1065, part_001 767).
ConfirmAccepted ==
    /\ UNCHANGED notMgrConfVars
    /\ confPc = "post"
    /\ refreshing < MaxInflight
    /\ refreshing' = refreshing + 1
    /\ confPc' = "done"
    /\ confShown' = IF mgr = "js" THEN "none"
                    ELSE "Transaction confirmed successfully"
    /\ UNCHANGED <<mgr, sdk, pendingTransactions, cards, refreshError>>
    /\ UNCHANGED <<confSigner, confTx, confPosts, confBody>>

\* The relay rejects the confirmation: the error is shown
\* (app.js 1073-1095, part_001 769-771).
ConfirmRejected ==
    /\ UNCHANGED notMgrConfVars
    /\ UNCHANGED mgrVars
    /\ confPc = "post"
    /\ confPc' = "done"
    /\ \E a \in ErrorAnswers :
          confShown' = IF mgr = "js" THEN ConfirmErrorShown(a.status)
                       ELSE "Failed to confirm transaction"
    /\ UNCHANGED <<confSigner, confTx, confPosts, confBody>>

NextConfirm ==
    \/ PageLoad
    \/ RefreshStart
    \/ RefreshResponse
    \/ RefreshFails
    \/ ConfirmClick
    \/ ConfirmAccepted
    \/ ConfirmRejected

SpecConfirm == Init /\ [][NextConfirm]_vars

\* ---- SafeManager.executeTransaction of the TypeScript managers -------------
\* part_001 805-843 and 2795-2833.

notExecMgrVars == <<propVars, relayVars, confVars, cfgVars, hashVars, timerVars, infoVars, connVars, scriptVars, orderVars>>

\* The catch of 829-832: the error is logged and one message is shown.
TsThrow(err) ==
    /\ pc' = "done"
    /\ result' = err
    /\ shown' = "Failed to execute transaction"

\* The Execute button is clicked.  With an SDK client the pending list is
\* asked of it (812); without one executeTransactionFallback throws (842).
TsExecStart ==
    /\ UNCHANGED notExecMgrVars
    /\ pc \in {"idle", "done"}
    /\ \E m \in {"ts", "ts2"}, k \in BOOLEAN :
          /\ mgr' = m
          /\ sdk' = k
          /\ IF k
             THEN pc' = "list" /\ result' = "none" /\ shown' = "none"
             ELSE TsThrow("Direct execution not implemented in fallback mode")
    /\ rpcUrl' = TRUE
    /\ hasKey' = TRUE
    /\ txData' = NoTx
    /\ signatures' = <<>>
    /\ warnings' = <<>>
    /\ gasLimit' = 0
    /\ estFailed' = FALSE
    /\ txHash' = "none"
    /\ estimate' = 0
    /\ chainCalls' = <<>>
    /\ UNCHANGED <<refreshing, pendingTransactions, cards, refreshError>>

\* The list arrives with a transaction of that hash: it is handed to
\* protocolKit.executeTransaction as it is (813-816).
TsExecFound ==
    /\ UNCHANGED notExecMgrVars
    /\ pc = "list"
    /\ \E tx \in ListTxs :
          /\ tx.safeTxHash # ""
          /\ txData' = tx
    /\ pc' = "sdkExecute"
    /\ chainCalls' = Append(chainCalls, "protocolKit.executeTransaction")
    /\ UNCHANGED <<rpcUrl, hasKey, signatures, warnings, gasLimit, estFailed, txHash, estimate,
                   result, shown>>
    /\ UNCHANGED mgrVars

\* The list arrives without it (817-819), or the SDK call rejects.
TsExecNotFound ==
    /\ UNCHANGED notExecMgrVars
    /\ pc = "list"
    /\ \E err \in {"Transaction not found", "getPendingTransactions failed"} :
          TsThrow(err)
    /\ UNCHANGED <<rpcUrl, hasKey, txData, signatures, warnings, gasLimit,
                   estFailed, txHash, estimate, chainCalls>>
    /\ UNCHANGED mgrVars

\* protocolKit.executeTransaction returns: success is shown and the list
\* is refreshed (825-826).
TsExecDone ==
    /\ UNCHANGED notExecMgrVars
    /\ pc = "sdkExecute"
    /\ refreshing < MaxInflight
    /\ refreshing' = refreshing + 1
    /\ pc' = "done"
    /\ result' = "success"
    /\ shown' = "Transaction executed successfully"
    /\ UNCHANGED <<rpcUrl, hasKey, txData, signatures, warnings, gasLimit,
                   estFailed, txHash, estimate, chainCalls>>
    /\ UNCHANGED <<mgr, sdk, pendingTransactions, cards, refreshError>>

\* protocolKit.executeTransaction rejects.
TsExecFails ==
    /\ UNCHANGED notExecMgrVars
    /\ pc = "sdkExecute"
    /\ TsThrow("Chain transaction failed")
    /\ UNCHANGED <<rpcUrl, hasKey, txData, signatures, warnings, gasLimit,
                   estFailed, txHash, estimate, chainCalls>>
    /\ UNCHANGED mgrVars

NextExecTs ==
    \/ TsExecStart
    \/ TsExecFound
    \/ TsExecNotFound
    \/ TsExecDone
    \/ TsExecFails
    \/ RefreshResponse
    \/ RefreshFails

SpecExecTs == Init /\ [][NextExecTs]_vars

\* ---- configuration, localStorage and connectToSafe --------------------------
\* app.js 647-733 and 736-756; part_001 103-106, 112-148, 199-345, 1131-1300.

\* The localStorage item each page uses.
JsItem == "safeManagerConfig"     \* app.js 656
TsItem == "safeConfig"            \* part_001 216
ChainId == 11155111               \* part_001 205

HasItem(k) == k \in DOMAIN store

\* app.js 736-756
validateConfigurationJs(f) ==
    /\ f.rpcUrl # ""
    /\ TextTruthy(f.privateKey) /\ TextLength(f.privateKey) >= KeyLen
    /\ TextTruthy(f.safeAddress) /\ f.safeAddress.pfx

\* The regular expressions of part_001 262 and 267.
MatchesHex(t, n) == t.pfx /\ t.body = n /\ t.hex

\* part_001 256-273: the message shown, "none" when the configuration passes.
validateConfigurationTs(c) ==
    IF \/ ~TextTruthy(c.safeAddress) \/ c.rpcUrl = ""
       \/ c.txServiceUrl = "" \/ ~TextTruthy(c.privateKey)
    THEN "All fields are required"
    ELSE IF ~MatchesHex(c.safeAddress, AddrLen) THEN "Invalid Safe address format"
    ELSE IF ~MatchesHex(c.privateKey, KeyLen) THEN "Invalid private key format"
    ELSE "none"

\* The checks at the head of connectToSafe (part_001 280-300).
connectChecksTs(c) ==
    IF c = NoConfig THEN "Please fill in the configuration information"
    ELSE IF c.rpcUrl = "" \/ ~TextTruthy(c.privateKey) \/ c.txServiceUrl = ""
    THEN "Configuration is incomplete"
    ELSE IF ~TextTruthy(c.safeAddress) THEN "Safe address is required to connect"
    ELSE "none"

\* What saveConfiguration writes: app.js 649-656 and part_001 213-216.
SavedJs(f) ==
    [txServiceUrl |-> f.txServiceUrl, rpcUrl |-> f.rpcUrl,
     safeAddress |-> f.safeAddress]
SavedTs(f) ==
    [safeAddress |-> f.safeAddress, rpcUrl |-> f.rpcUrl, chainId |-> ChainId,
     txServiceUrl |-> f.txServiceUrl, privateKey |-> f.privateKey]

\* loadConfiguration on the form: app.js 663-678 (the key field is left as
\* it is), part_001 225-251 (populateConfigForm fills all four fields).
LoadedJs(f) ==
    IF HasItem(JsItem)
    THEN [f EXCEPT !.txServiceUrl = store[JsItem].txServiceUrl,
                   !.rpcUrl = store[JsItem].rpcUrl,
                   !.safeAddress = store[JsItem].safeAddress]
    ELSE f
LoadedTs(f) ==
    IF HasItem(TsItem)
    THEN [txServiceUrl |-> store[TsItem].txServiceUrl,
          rpcUrl |-> store[TsItem].rpcUrl,
          safeAddress |-> store[TsItem].safeAddress,
          privateKey |-> store[TsItem].privateKey]
    ELSE f

\* initializeApp of the TypeScript managers (138-149): with a configuration
\* initializeSafeClient asks the SDK for a client (119-127), then
\* connectToSafe runs.
initializeApp(c) ==
    IF c # NoConfig /\ TextTruthy(c.safeAddress)
    THEN /\ connPc' = "appInit"
         /\ netCalls' = <<"createSafeClient">>
    ELSE /\ connPc' = IF c = NoConfig THEN "idle" ELSE "appInitNoClient"
         /\ netCalls' = <<>>

\* The page is opened (a page is built with one of the managers and keeps
\* it over reloads): the constructor loads the configuration, and the
\* TypeScript pages go on to initializeApp (part_001 2023).
CfgOpen ==
    /\ UNCHANGED notMgrCfgVars
    /\ \E m \in {"js", "ts", "ts2"} :
          /\ mgr \in {"none", m}
          /\ mgr' = m
          /\ sdk' = (m = "js")
          /\ IF m = "js"
             THEN /\ form' = LoadedJs(EmptyForm)
                  /\ config' = NoConfig
                  /\ connPc' = "idle"
                  /\ netCalls' = <<>>
                  /\ connShown' = "none"
             ELSE /\ form' = LoadedTs(EmptyForm)
                  /\ config' = IF HasItem(TsItem) THEN store[TsItem] ELSE NoConfig
                  /\ initializeApp(config')
                  /\ connShown' = IF HasItem(TsItem)
                                  THEN "Configuration loaded successfully!"
                                  ELSE "No saved configuration found"
    /\ refreshing' = 0
    /\ pendingTransactions' = <<>>
    /\ cards' = <<>>
    /\ refreshError' = "none"
    /\ UNCHANGED store

\* The form is filled in and Save is clicked.
saveConfiguration ==
    /\ UNCHANGED notMgrCfgVars
    /\ UNCHANGED mgrVars
    /\ mgr # "none"
    /\ \E f \in Forms :
          /\ form' = f
          /\ IF mgr = "js"
             THEN /\ store' = (JsItem :> SavedJs(f)) @@ store
                  /\ UNCHANGED <<config, connPc, netCalls, connShown>>
             ELSE IF validateConfigurationTs(f) # "none"
             THEN /\ connShown' = validateConfigurationTs(f)
                  /\ UNCHANGED <<config, store, connPc, netCalls>>
             ELSE /\ config' = SavedTs(f)
                  /\ store' = (TsItem :> SavedTs(f)) @@ store
                  /\ connShown' = "Configuration saved successfully"
                  /\ initializeApp(config')

\* Load is clicked.
loadConfiguration ==
    /\ UNCHANGED notMgrCfgVars
    /\ UNCHANGED mgrVars
    /\ mgr # "none"
    /\ IF mgr = "js"
       THEN /\ form' = LoadedJs(form)
            /\ UNCHANGED <<config, connShown>>
       ELSE /\ form' = LoadedTs(form)
            /\ config' = IF HasItem(TsItem) THEN store[TsItem] ELSE config
            /\ connShown' = IF HasItem(TsItem)
                            THEN "Configuration loaded successfully!"
                            ELSE "No saved configuration found"
    /\ UNCHANGED <<store, connPc, netCalls>>

\* Connect is clicked.  app.js 680-700: the form is validated, a SafeClient
\* is made of it and testConnection is sent.  part_001 278-306: the saved
\* configuration is checked and the SDK is asked for a client.
connectToSafe ==
    /\ UNCHANGED notMgrCfgVars
    /\ UNCHANGED mgrVars
    /\ mgr # "none"
    /\ IF mgr = "js"
       THEN \E f \in Forms :
               /\ form' = f
               /\ IF validateConfigurationJs(f)
                  THEN /\ config' = f
                       /\ connPc' = "test"
                       /\ netCalls' = <<"testConnection">>
                  ELSE /\ connPc' = "done"
                       /\ netCalls' = <<>>
                       /\ UNCHANGED config
               /\ connShown' = "none"
       ELSE /\ connShown' = connectChecksTs(config)
            /\ IF connectChecksTs(config) = "none"
               THEN /\ connPc' = "sdkInit"
                    /\ netCalls' = <<"createSafeClient">>
               ELSE /\ connPc' = "done"
                    /\ netCalls' = <<>>
            /\ UNCHANGED <<form, config>>
    /\ UNCHANGED store

\* app.js 698-708: testConnection is answered, with the service info or
\* with an error that is swallowed; getSafeInfo is sent.
ConnTestAnswered ==
    /\ UNCHANGED notMgrCfgVars
    /\ UNCHANGED mgrVars
    /\ connPc = "test"
    /\ connPc' = "info"
    /\ netCalls' = Append(netCalls, "getSafeInfo")
    /\ UNCHANGED <<form, config, store, connShown>>

\* part_001 142-143: the client asked for by initializeApp arrives (or
\* not), and connectToSafe runs: its checks, then initializeSafeClient.
ConnAppInitAnswered ==
    /\ UNCHANGED notMgrCfgVars
    /\ UNCHANGED mgrVars
    /\ connPc \in {"appInit", "appInitNoClient"}
    /\ connShown' = connectChecksTs(config)
    /\ IF connectChecksTs(config) = "none"
       THEN /\ connPc' = "sdkInit"
            /\ netCalls' = Append(netCalls, "createSafeClient")
       ELSE /\ connPc' = "done"
            /\ UNCHANGED netCalls
    /\ UNCHANGED <<form, config, store>>

\* part_001 303-331: with a client the Safe is read through protocolKit,
\* without one getSafeInfoFallback fetches it from the relay.
ConnSdkAnswered ==
    /\ UNCHANGED notMgrCfgVars
    /\ connPc = "sdkInit"
    /\ \E client \in BOOLEAN :
          /\ sdk' = client
          /\ netCalls' = Append(netCalls, IF client THEN "protocolKit"
                                          ELSE "getSafeInfoFallback")
    /\ connPc' = "info"
    /\ UNCHANGED <<mgr, refreshing, pendingTransactions, cards, refreshError>>
    /\ UNCHANGED <<form, config, store, connShown>>

\* The Safe info arrives: the page is connected, startAutoRefresh sets the
\* timer and the pending list is asked for (app.js 710-719, part_001
\* 334-341 and 1853-1857).
ConnInfoOk ==
    /\ UNCHANGED notMgrCfgConnVars
    /\ connPc = "info"
    /\ refreshing < MaxInflight
    /\ refreshing' = refreshing + 1
    /\ connPc' = "done"
    /\ netCalls' = Append(netCalls, "getPendingTransactions")
    /\ connShown' = "Connected"
    /\ infoSource' = IF mgr # "js" /\ sdk THEN "sdk" ELSE "relay"
    /\ UNCHANGED reconnects
    /\ UNCHANGED <<mgr, sdk, pendingTransactions, cards, refreshError>>
    /\ UNCHANGED <<form, config, store>>

MaxReconnects == 1     \* chained calls of initializeApp that are followed

\* generateMockSafeAddress (part_001 414-418): '0x' and 40 characters of
\* calculateHash's padded hex text.
MockSafeAddress == HexText(TRUE, AddrLen, TRUE)

\* The Safe info does not arrive.  app.js 724-729 and, with an SDK client,
\* part_001 343-353: the status is 'Failed'.  Without a client
\* getSafeInfoFallback catches the failure and calls createNewSafe
\* (386-408), which puts a mock address into the configuration and calls
\* saveConfiguration (202-220): with a valid form the configuration is
\* taken from the form again, stored, and initializeApp is started;
\* connectToSafe then goes on with the mock Safe info (334-341).
ConnInfoFails ==
    /\ UNCHANGED notMgrCfgConnVars
    /\ connPc = "info"
    /\ IF mgr = "js" \/ sdk
       THEN /\ connPc' = "done"
            /\ connShown' = "Failed"
            /\ infoSource' = "failed"
            /\ UNCHANGED <<config, store, netCalls, reconnects, refreshing>>
       ELSE /\ refreshing < MaxInflight
            /\ refreshing' = refreshing + 1
            /\ connShown' = "Connected"
            /\ infoSource' = "mock"
            /\ IF validateConfigurationTs(form) # "none"
               THEN /\ config' = [config EXCEPT !.safeAddress = MockSafeAddress]
                    /\ connPc' = "done"
                    /\ UNCHANGED <<store, netCalls, reconnects>>
               ELSE /\ reconnects < MaxReconnects
                    /\ reconnects' = reconnects + 1
                    /\ config' = SavedTs(form)
                    /\ store' = (TsItem :> SavedTs(form)) @@ store
                    /\ initializeApp(config')
    /\ UNCHANGED <<mgr, sdk, pendingTransactions, cards, refreshError, form>>

\* createSafe of the TypeScript managers (part_001 1131-1300): the Safe is
\* deployed, then its address is put into the configuration, which is
\* written to localStorage (1256-1257).
createSafe ==
    /\ UNCHANGED notMgrCfgVars
    /\ mgr \in {"ts", "ts2"}
    /\ config # NoConfig
    /\ config.rpcUrl # "" /\ TextTruthy(config.privateKey) /\ config.txServiceUrl # ""
    /\ \E deployed \in BOOLEAN :
          IF deployed
          THEN /\ refreshing < MaxInflight
               /\ refreshing' = refreshing + 1
               /\ config' = [config EXCEPT !.safeAddress = GoodAddress]
               /\ store' = (TsItem :> config') @@ store
               /\ form' = [form EXCEPT !.safeAddress = GoodAddress]
               /\ connShown' = "Safe created successfully!"
               /\ sdk' = TRUE
          ELSE /\ connShown' = "Safe creation failed"
               /\ UNCHANGED <<refreshing, config, store, form, sdk>>
    /\ connPc' = "done"
    /\ netCalls' = <<"deploySafe">>
    /\ UNCHANGED <<mgr, pendingTransactions, cards, refreshError>>

NextConfig ==
    \/ CfgOpen
    \/ saveConfiguration
    \/ loadConfiguration
    \/ connectToSafe
    \/ ConnTestAnswered
    \/ ConnAppInitAnswered
    \/ ConnSdkAnswered
    \/ ConnInfoOk
    \/ ConnInfoFails
    \/ createSafe
    \/ RefreshFails

SpecConfig == Init /\ [][NextConfig]_vars

\* ---- the auto-refresh timer --------------------------------------------------
\* startAutoRefresh (app.js 823-834; part_001 1853-1864, 3460-3471),
\* stopAutoRefresh (1869-1878), pauseAutoRefresh and resumeAutoRefresh
\* (1710-1726) and cleanup (app.js 1296-1300).
MaxTimers == 3         \* most timers one page creates

\* Mutant: clearInterval clears nothing.
clearIntervalNoop(active, id) == active

\* clearInterval(id): the timer with that id, if any, is no longer active.
clearInterval(active, id) == active \ {id}

\* The page is loaded with one of the managers; no timer is set yet.
TimerOpen ==
    /\ UNCHANGED notMgrTimerVars
    /\ UNCHANGED timerVars
    /\ mgr = "none"
    /\ \E m \in {"js", "ts", "ts2"}, k \in BOOLEAN :
          /\ mgr' = m
          /\ sdk' = (m = "js" \/ k)
    /\ UNCHANGED <<refreshing, pendingTransactions, cards, refreshError>>

\* startAutoRefresh: the old timer is cleared, the TypeScript managers
\* start a refresh at once, and a new timer is set.
startAutoRefresh ==
    /\ UNCHANGED notMgrTimerVars
    /\ mgr # "none"
    /\ nextTimer <= MaxTimers
    /\ timers' = clearInterval(timers, refreshInterval) \cup {nextTimer}
    /\ refreshInterval' = nextTimer
    /\ nextTimer' = nextTimer + 1
    /\ autoStopped' = FALSE
    /\ IF mgr = "js"
       THEN UNCHANGED refreshing
       ELSE /\ refreshing < MaxInflight
            /\ refreshing' = refreshing + 1
    /\ UNCHANGED <<mgr, sdk, pendingTransactions, cards, refreshError,
                   tickAfterStop>>

\* resumeAutoRefresh() { this.startAutoRefresh(); }
resumeAutoRefresh ==
    /\ mgr \in {"ts", "ts2"}
    /\ autoStopped
    /\ startAutoRefresh

\* stopAutoRefresh: the timer is cleared and the field set to null.
stopAutoRefresh ==
    /\ UNCHANGED notTimerVars
    /\ mgr \in {"ts", "ts2"}
    /\ timers' = clearInterval(timers, refreshInterval)
    /\ refreshInterval' = 0
    /\ autoStopped' = TRUE
    /\ UNCHANGED <<nextTimer, tickAfterStop>>

\* pauseAutoRefresh, called when the details of a transaction are opened:
\* the same statements as stopAutoRefresh.
pauseAutoRefresh == ~autoStopped /\ stopAutoRefresh

\* cleanup of app.js: the timer is cleared, the field keeps its id.
cleanup ==
    /\ UNCHANGED notTimerVars
    /\ mgr = "js"
    /\ timers' = clearInterval(timers, refreshInterval)
    /\ autoStopped' = TRUE
    /\ UNCHANGED <<refreshInterval, nextTimer, tickAfterStop>>

\* An active timer fires: its callback calls refreshPendingTransactions.
TimerTick ==
    /\ UNCHANGED notMgrTimerVars
    /\ \E t \in timers : TRUE
    /\ refreshing < MaxInflight
    /\ refreshing' = refreshing + 1
    /\ tickAfterStop' = (tickAfterStop \/ autoStopped)
    /\ UNCHANGED <<mgr, sdk, pendingTransactions, cards, refreshError>>
    /\ UNCHANGED <<timers, refreshInterval, nextTimer, autoStopped>>

NextTimer ==
    \/ TimerOpen
    \/ startAutoRefresh
    \/ resumeAutoRefresh
    \/ stopAutoRefresh
    \/ pauseAutoRefresh
    \/ cleanup
    \/ TimerTick
    \/ RefreshResponse
    \/ RefreshFails

SpecTimer == Init /\ [][NextTimer]_vars

\* ---- the cached Safe info ---------------------------------------------------
\* this.safeInfo of the TypeScript manager (part_001 97): written by
\* connectToSafe (334) and createSafe (1285), read by
\* renderPendingConfirmations (1589-1600).
MaxNonce == 2          \* executions of the Safe that are followed
MaxWrites == 2         \* executes and proposes counted since the last read

\* connectToSafe obtained the Safe info and stores it (308-341); polling
\* starts with a refresh.
InfoConnect ==
    /\ UNCHANGED notMgrInfoVars
    /\ mgr = "ts"
    /\ refreshing < MaxInflight
    /\ safeInfo' = [nonce |-> safeNonce]
    /\ sinceRead' = 0
    /\ refreshing' = refreshing + 1
    /\ UNCHANGED <<safeNonce, staleUse>>
    /\ UNCHANGED <<mgr, sdk, pendingTransactions, cards, refreshError>>

\* executeTransaction succeeded (805-826): the Safe's nonce has moved on,
\* the success is shown and refreshPendingTransactions is called.
InfoExecuteOk ==
    /\ UNCHANGED notMgrInfoVars
    /\ mgr = "ts"
    /\ safeInfo # <<>>
    /\ safeNonce < MaxNonce
    /\ refreshing < MaxInflight
    /\ safeNonce' = safeNonce + 1
    /\ sinceRead' = IF sinceRead < MaxWrites THEN sinceRead + 1 ELSE sinceRead
    /\ refreshing' = refreshing + 1
    /\ UNCHANGED <<safeInfo, staleUse>>
    /\ UNCHANGED <<mgr, sdk, pendingTransactions, cards, refreshError>>

\* handleProposeSubmit succeeded (1341-1356): the success is shown and
\* refreshPendingTransactions is called.
InfoProposeOk ==
    /\ UNCHANGED notMgrInfoVars
    /\ mgr = "ts"
    /\ safeInfo # <<>>
    /\ refreshing < MaxInflight
    /\ sinceRead' = IF sinceRead < MaxWrites THEN sinceRead + 1 ELSE sinceRead
    /\ refreshing' = refreshing + 1
    /\ UNCHANGED <<safeInfo, safeNonce, staleUse>>
    /\ UNCHANGED <<mgr, sdk, pendingTransactions, cards, refreshError>>

\* The details of a pending transaction are shown:
\* renderPendingConfirmations reads this.safeInfo.owners (1589-1600).
InfoUse ==
    /\ UNCHANGED notInfoVars
    /\ mgr = "ts"
    /\ safeInfo # <<>>
    /\ pendingTransactions # <<>>
    /\ staleUse' = (staleUse \/ sinceRead > 0)
    /\ UNCHANGED <<safeInfo, safeNonce, sinceRead>>

NextInfo ==
    \/ TimerOpen
    \/ InfoConnect
    \/ InfoExecuteOk
    \/ InfoProposeOk
    \/ InfoUse
    \/ RefreshResponse
    \/ RefreshFails

SpecInfo == Init /\ [][NextInfo]_vars

\* ---- the send-transactions script -------------------------------------------
\* confirm and main of the script (part_001 3688-3733;
\* src/send-transactions.ts 55-96).
MaxScriptList == 3     \* longest pending list the script is given

ScriptHashes == {"0xh1", "0xh2", "0xh3", "0xh4"}

\* The pending lists of the relay: transactions with distinct hashes.
ScriptLists ==
    {l \in UNION {[1..n -> ScriptHashes] : n \in 0..MaxScriptList} :
        \A i, j \in DOMAIN l : i # j => l[i] # l[j]}

\* The loop of confirm (3706-3714): the first transaction with another hash
\* returns from the function; a transaction with the hash is confirmed.
RECURSIVE confirmLoop(_, _)
confirmLoop(results, target) ==
    IF results = <<>> THEN <<>>
    ELSE IF Head(results) # target THEN <<>>
    ELSE <<Head(results)>> \o confirmLoop(Tail(results), target)

\* main: send() returns the result of the proposal (3723).
ScriptSend ==
    /\ UNCHANGED notScriptVars
    /\ scriptPc \in {"idle", "done"}
    /\ \E t \in ScriptHashes \cup {""} : scriptTarget' = t
    /\ scriptPc' = "sent"
    /\ scriptPk' = FALSE
    /\ scriptList' = <<>>
    /\ scriptConfirmed' = <<>>

\* confirm(txResult, pk) (3688-3715).
ScriptConfirm ==
    /\ UNCHANGED notScriptVars
    /\ scriptPc = "sent"
    /\ \E pk \in BOOLEAN, l \in ScriptLists :
          /\ scriptPk' = pk
          /\ scriptList' = IF pk THEN l ELSE <<>>
          /\ scriptConfirmed' = IF pk THEN confirmLoop(l, scriptTarget) ELSE <<>>
    /\ scriptPc' = "done"
    /\ UNCHANGED scriptTarget

NextScript ==
    \/ ScriptSend
    \/ ScriptConfirm

SpecScript == Init /\ [][NextScript]_vars

\* ---- refreshes that overlap ---------------------------------------------------
\* refreshPendingTransactions (app.js 836-866, part_001 468-510 and
\* 2500-2536) with its calls told apart: each call is numbered when it
\* starts, and the lists arrive in any order.
MaxStarts == 3         \* calls of refreshPendingTransactions that are followed

\* A call starts and awaits the list.
OrderStart ==
    /\ UNCHANGED notMgrOrderVars
    /\ mgr # "none"
    /\ started < MaxStarts
    /\ refreshing < MaxInflight
    /\ started' = started + 1
    /\ inflight' = inflight \cup {started + 1}
    /\ refreshing' = refreshing + 1
    /\ UNCHANGED <<mgr, sdk, pendingTransactions, cards, refreshError, storedFrom>>

\* The list of one of the waiting calls arrives: it is stored and rendered.
OrderResponse ==
    /\ UNCHANGED notMgrOrderVars
    /\ \E n \in inflight, resp \in Responses :
          LET stored == IF mgr = "js" THEN StoredJs(resp)
                        ELSE IF mgr = "ts" THEN StoredTs(resp, sdk)
                        ELSE StoredTs2(resp, sdk)
          IN  /\ pendingTransactions' = stored
              /\ cards' = renderPendingTransactions(mgr, stored)
              /\ inflight' = inflight \ {n}
              /\ storedFrom' = n
    /\ refreshing' = refreshing - 1
    /\ UNCHANGED <<mgr, sdk, refreshError, started>>

\* One of the waiting calls fails: app.js 861-865 empties the list and
\* renders it, part_001 506-509 and 2532-2535 show an error.
OrderFails ==
    /\ UNCHANGED notMgrOrderVars
    /\ \E n \in inflight :
          /\ inflight' = inflight \ {n}
          /\ IF mgr = "js"
             THEN /\ pendingTransactions' = <<>>
                  /\ cards' = <<>>
                  /\ storedFrom' = n
                  /\ UNCHANGED refreshError
             ELSE /\ refreshError' = "Failed to load pending transactions"
                  /\ UNCHANGED <<pendingTransactions, cards, storedFrom>>
    /\ refreshing' = refreshing - 1
    /\ UNCHANGED <<mgr, sdk, started>>

NextOrder ==
    \/ TimerOpen
    \/ OrderStart
    \/ OrderResponse
    \/ OrderFails

SpecOrder == Init /\ [][NextOrder]_vars

\* ---- the Safe transaction hash ---------------------------------------------
\* send (send-transactions.js 213-243) and SafeManager.calculateSafeTxHash
\* (part_001 1532-1546).  Strings are sequences of character codes.

MaxInt32 == 2147483647
MinInt32 == (-2147483647) - 1

\* a + b and a - b of two 32-bit integers, wrapped to 32 bits (ToInt32).
AddWrap(a, b) ==
    IF a >= 0 /\ b >= 0 /\ a > MaxInt32 - b THEN (a + MinInt32) + (b + MinInt32)
    ELSE IF a < 0 /\ b < 0 /\ a < MinInt32 - b THEN (a - MinInt32) + (b - MinInt32)
    ELSE a + b
SubWrap(a, b) == IF b = MinInt32 THEN AddWrap(a, MinInt32) ELSE AddWrap(a, -b)

\* hash << 5
ShiftLeft5(h) ==
    LET u == h % 134217728
    IN  IF u >= 67108864 THEN (u - 134217728) * 32 ELSE u * 32

\* hash = ((hash << 5) - hash) + char; hash = hash & hash
HashStep(h, char) == AddWrap(SubWrap(ShiftLeft5(h), h), char)

\* The loop of part_001 1538-1543 over the characters of data.
RECURSIVE HashLoop(_, _)
HashLoop(h, data) ==
    IF data = <<>> THEN h ELSE HashLoop(HashStep(h, Head(data)), Tail(data))

\* Number.prototype.toString(16) of a non-negative integer: its hex digits.
RECURSIVE HexDigits(_)
HexDigits(n) == IF n < 16 THEN <<n>> ELSE HexDigits(n \div 16) \o <<n % 16>>

\* Math.abs(hash).toString(16); Math.abs of -2^31 is 2^31, "80000000".
AbsHex(h) ==
    IF h = MinInt32 THEN <<8, 0, 0, 0, 0, 0, 0, 0>>
    ELSE HexDigits(IF h < 0 THEN -h ELSE h)

\* String.prototype.padStart(n, '0') on a string of hex digits.
PadStart(s, n) == IF Len(s) >= n THEN s ELSE [i \in 1..(n - Len(s)) |-> 0] \o s

\* The decimal text of a non-negative number in a template literal.
RECURSIVE DecimalText(_)
DecimalText(n) ==
    IF n < 10 THEN <<48 + n>> ELSE DecimalText(n \div 10) \o <<48 + (n % 10)>>

DigestLen == 64

\* calculateSafeTxHash(transaction, nonce) of part_001 1532-1546.
calculateSafeTxHash(t) ==
    [prefix |-> "0x",
     hex |-> PadStart(AbsHex(HashLoop(0, t.to \o t.value \o t.data
                 \o DecimalText(t.operation) \o DecimalText(t.nonce))),
                 DigestLen)]

\* ethers.utils.keccak256, taken as collision-free: the digest names what
\* was hashed.
keccak256(x) == <<"keccak256", x>>

ZeroAddress == <<48, 120, 48>>
SendChainId == 133

\* contractTransactionHash of send (send-transactions.js 213-243).
contractTransactionHash(t) ==
    LET dataHash == keccak256(t.data)
        encodedData == <<"SAFE_TX_TYPEHASH", t.to, t.value, dataHash,
                         t.operation, t.safeTxGas, 0, 0, ZeroAddress,
                         ZeroAddress, t.nonce>>
        safeTxHash == keccak256(encodedData)
        domainSeparator ==
            keccak256(<<"DOMAIN_TYPEHASH", SendChainId, t.safeAddress>>)
    IN  [prefix |-> "0x",
         hex |-> keccak256(<<25, 1, domainSeparator, safeTxHash>>)]

\* The digest a hash code returns.
DigestOf(path, t) ==
    IF path = "ts" THEN calculateSafeTxHash(t) ELSE contractTransactionHash(t)

\* The fields of a transaction with its Safe and chain, and their values.
HashFields ==
    {"to", "value", "data", "operation", "safeTxGas", "baseGas", "gasPrice",
     "gasToken", "refundReceiver", "nonce", "chainId", "safeAddress"}
FieldValues(f) ==
    CASE f = "to" -> {<<48, 120, 65>>, <<48, 120, 66>>}
      [] f = "value" -> {<<48>>, <<49>>}
      [] f = "data" -> {<<48, 120>>, <<48, 120, 49>>}
      [] f = "operation" -> {0, 1}
      [] f = "safeTxGas" -> {100000, 200000}
      [] f \in {"baseGas", "gasPrice"} -> {0, 1}
      [] f \in {"gasToken", "refundReceiver"} -> {ZeroAddress, <<48, 120, 67>>}
      [] f = "nonce" -> {7, 8}
      [] f = "chainId" -> {SendChainId, ChainId}
      [] OTHER -> {<<48, 120, 83>>, <<48, 120, 84>>}
HashInputs ==
    [to : FieldValues("to"), value : FieldValues("value"),
     data : FieldValues("data"), operation : FieldValues("operation"),
     safeTxGas : FieldValues("safeTxGas"), baseGas : FieldValues("baseGas"),
     gasPrice : FieldValues("gasPrice"), gasToken : FieldValues("gasToken"),
     refundReceiver : FieldValues("refundReceiver"),
     nonce : FieldValues("nonce"), chainId : FieldValues("chainId"),
     safeAddress : FieldValues("safeAddress")]

\* A hash code runs on a transaction.
HashFirst ==
    /\ UNCHANGED notHashVars
    /\ hashInputs = <<>>
    /\ \E p \in {"js", "ts"}, t \in HashInputs :
          /\ hashPath' = p
          /\ hashInputs' = <<t>>
          /\ hashDigests' = <<DigestOf(p, t)>>

\* It runs again, on the same transaction or on one with one field changed.
HashSecond ==
    /\ UNCHANGED notHashVars
    /\ Len(hashInputs) = 1
    /\ \E f \in HashFields : \E v \in FieldValues(f) :
          LET t == [hashInputs[1] EXCEPT ![f] = v]
          IN  /\ hashInputs' = Append(hashInputs, t)
              /\ hashDigests' = Append(hashDigests, DigestOf(hashPath, t))
    /\ UNCHANGED hashPath

NextHash ==
    \/ HashFirst
    \/ HashSecond

SpecHash == Init /\ [][NextHash]_vars

\* ---- errors of the relay calls ---------------------------------------------
RelayCalls ==
    {"getSafeInfo", "getPendingTransactions", "confirm", "getTransaction",
     "testConnection", "send", "sendSafeInfo", "getSafeInfoFallback",
     "getPendingTransactionsFallback", "confirmTransactionFallback",
     "proposeTransactionFallback"}

\* The Error each call site throws on a response that is not ok.
ErrorOf(call, a) ==
    CASE call \in {"getSafeInfo", "getPendingTransactions", "confirm"} ->
           \* app.js 93, 127, 248: status, statusText and URL
           ErrorValue("HTTP error!", a.status, a.statusText, "")
      [] call = "getTransaction" ->
           \* app.js 389
           ErrorValue("Failed to get transaction details", a.status, "", "")
      [] call = "testConnection" ->
           \* app.js 566
           ErrorValue("Service not available", a.status, a.statusText, "")
      [] call = "send" ->
           \* send-transactions.js 277
           ErrorValue("HTTP error!", a.status, "", a.body)
      [] call = "sendSafeInfo" ->
           \* send-transactions.js 202, part_001 1431
           ErrorValue("Failed to get Safe info", a.status, "", "")
      [] call = "getSafeInfoFallback" ->
           \* part_001 372
           ErrorValue("Failed to fetch Safe info", 0, a.statusText, "")
      [] call = "getPendingTransactionsFallback" ->
           \* part_001 525
           ErrorValue("Failed to fetch transactions", 0, a.statusText, "")
      [] call = "confirmTransactionFallback" ->
           \* part_001 798
           ErrorValue("Failed to confirm transaction", 0, a.statusText, a.body)
      [] OTHER ->
           \* part_001 1469: proposeTransactionFallback
           ErrorValue("Failed to propose transaction", 0, a.statusText, a.body)

\* ---- what the HTTP requests carry -------------------------------------------
\* A value of a request: what it is and what it was computed from.
Value(kind, of) == [kind |-> kind, of |-> of]
Plain(name) == Value("text", name)

\* The private keys a client may hold.
SignerKeys == {"keyA", "keyB"}
KeyValue(k) == Value("privateKey", k)
\* wallet.address, privateKeyToAddress(key): the address of the key.
AddressOf(k) == Value("address", k)
\* generateSignatureWithWallet(safeTxHash, wallet), generateSignature(safeTxHash)
Signed(k, h) == Value("signature", <<k, h>>)
\* '0x000000000000000000000000' + signerAddress.slice(2) + '00...01'
PlaceholderSignature(k) == Value("placeholder", k)

\* requestBody of SafeClient.confirm (app.js 196-199).
ConfirmRequestBodyWithKey(k, h) ==
    [signature |-> Signed(k, h), owner |-> AddressOf(k), privateKey |-> KeyValue(k)]
ConfirmRequestBody(k, h) ==
    [signature |-> Signed(k, h), owner |-> AddressOf(k)]

\* The body of confirmTransactionFallback (part_001 790-792).
ConfirmFallbackBody(k, h) == [signature |-> Signed(k, h)]

\* transactionData of send (send-transactions.js 246-261) and of
\* proposeTransactionFallback (part_001 1442-1457).
ProposeBody(k) ==
    [to |-> Plain("to"), value |-> Plain("value"), data |-> Plain("data"),
     operation |-> Plain("operation"), safeTxGas |-> Plain("safeTxGas"),
     baseGas |-> Plain("0"), gasPrice |-> Plain("0"),
     gasToken |-> Plain("0x0"), refundReceiver |-> Plain("0x0"),
     nonce |-> Plain("nonce"), contractTransactionHash |-> Plain("safeTxHash"),
     sender |-> AddressOf(k), signature |-> PlaceholderSignature(k),
     origin |-> Plain("safe-sign-example")]

\* The body of getAddressBalance's JSON-RPC request (part_001 1804-1809).
BalanceBody(k) ==
    [jsonrpc |-> Plain("2.0"), method |-> Plain("eth_getBalance"),
     params |-> AddressOf(k), id |-> Plain("1")]

\* The request each call site hands to fetch: the values its URL is built
\* from and its body (<<>> for a GET).
RequestOf(call, k, h) ==
    CASE call \in {"getSafeInfo", "sendSafeInfo", "getSafeInfoFallback",
                   "getPendingTransactions", "getPendingTransactionsFallback"} ->
           \* app.js 75, 109; send-transactions.js 200; part_001 370, 1429, 520
           [url |-> <<Plain("txServiceUrl"), Plain("safeAddress")>>, body |-> <<>>]
      [] call = "getTransaction" ->
           \* app.js 380
           [url |-> <<Plain("txServiceUrl"), Plain(h)>>, body |-> <<>>]
      [] call = "testConnection" ->
           \* app.js 555
           [url |-> <<Plain("txServiceUrl")>>, body |-> <<>>]
      [] call = "confirm" ->
           \* app.js 143, 215
           [url |-> <<Plain("txServiceUrl"), Plain(h)>>,
            body |-> ConfirmRequestBody(k, h)]
      [] call = "confirmTransactionFallback" ->
           \* part_001 784-793
           [url |-> <<Plain("txServiceUrl"), Plain(h)>>,
            body |-> ConfirmFallbackBody(k, h)]
      [] call \in {"send", "proposeTransactionFallback"} ->
           \* send-transactions.js 266; part_001 1459
           [url |-> <<Plain("txServiceUrl"), Plain("safeAddress")>>,
            body |-> ProposeBody(k)]
      [] OTHER ->
           \* part_001 1799: getAddressBalance
           [url |-> <<Plain("rpcUrl")>>, body |-> BalanceBody(k)]

SafeTxHashes == {"0xh1", "0xh2"}

\* A call to the relay is made.
RelayRequest ==
    /\ UNCHANGED notRelayVars
    /\ relayPc \in {"idle", "answered"}
    /\ \E c \in RelayCalls, k \in SignerKeys, h \in SafeTxHashes :
          /\ relayCall' = c
          /\ relayKey' = k
          /\ relayReq' = RequestOf(c, k, h)
    /\ relayPc' = "waiting"
    /\ relayResp' = OkAnswer
    /\ relayError' = NoError

\* The relay answers: on a response that is not ok the call throws.
RelayAnswer ==
    /\ UNCHANGED notRelayVars
    /\ relayPc = "waiting"
    /\ \E a \in Answers :
          /\ relayResp' = a
          /\ relayError' = IF a.ok THEN NoError ELSE ErrorOf(relayCall, a)
    /\ relayPc' = "answered"
    /\ UNCHANGED <<relayCall, relayKey, relayReq>>

\* getAddressBalance posts eth_getBalance to the RPC endpoint
\* (part_001 1793-1810).
BalanceRequest ==
    /\ UNCHANGED notRelayVars
    /\ relayPc \in {"idle", "answered"}
    /\ \E k \in SignerKeys :
          /\ relayKey' = k
          /\ relayReq' = RequestOf("getAddressBalance", k, "")
    /\ relayCall' = "getAddressBalance"
    /\ relayPc' = "rpc"
    /\ relayResp' = OkAnswer
    /\ relayError' = NoError

\* Its answer: a failure is logged and '0.00' returned (1812-1828), so the
\* caller gets no error.
BalanceAnswer ==
    /\ UNCHANGED notRelayVars
    /\ relayPc = "rpc"
    /\ \E a \in Answers : relayResp' = a
    /\ relayError' = NoError
    /\ relayPc' = "idle"
    /\ UNCHANGED <<relayCall, relayKey, relayReq>>

NextRelay ==
    \/ RelayRequest
    \/ RelayAnswer
    \/ BalanceRequest
    \/ BalanceAnswer

SpecRelay == Init /\ [][NextRelay]_vars

\* ---- proposing a transaction ----------------------------------------------
\* send (send-transactions.js 141-299) and SafeManager.proposeTransaction
\* with proposeTransactionFallback (part_001 1369-1473).

\* The call starts.  With an SDK client the TypeScript manager sends the
\* proposal through safeClient.send (1402-1405); otherwise, and in send, the
\* Safe info is fetched first (send-transactions.js 200, part_001 1429).
ProposeStart ==
    /\ UNCHANGED notPropVars
    /\ propPc \in {"idle", "done"}
    /\ \E path \in {"js", "ts"}, withSdk \in BOOLEAN :
          /\ propPath' = path
          /\ IF path = "ts" /\ withSdk
             THEN propPc' = "sdkSend" /\ propSent' = 1
             ELSE propPc' = "info" /\ propSent' = 0
    /\ propAnswers' = <<>>
    /\ propCreated' = 0
    /\ propError' = NoError

\* safeClient.send returns or throws: the catch of 1406-1408 logs the error
\* and goes on to proposeTransactionFallback, which fetches the Safe info.
SdkSendAnswer ==
    /\ UNCHANGED notPropVars
    /\ propPc = "sdkSend"
    /\ \E a \in Answers :
          /\ propAnswers' = Append(propAnswers, a)
          /\ IF a.ok
             THEN propPc' = "done" /\ propCreated' = propCreated + 1
             ELSE propPc' = "info" /\ UNCHANGED propCreated
    /\ UNCHANGED <<propPath, propSent, propError>>

\* The Safe info arrives: the hash is computed and the proposal is posted.
ProposeInfoOk ==
    /\ UNCHANGED notPropVars
    /\ propPc = "info"
    /\ propPc' = "post"
    /\ propSent' = propSent + 1
    /\ UNCHANGED <<propPath, propAnswers, propCreated, propError>>

\* The Safe info request is answered with an error status.
ProposeInfoFails ==
    /\ UNCHANGED notPropVars
    /\ propPc = "info"
    /\ \E a \in ErrorAnswers : propError' = ErrorOf("sendSafeInfo", a)
    /\ propPc' = "done"
    /\ UNCHANGED <<propPath, propSent, propAnswers, propCreated>>

\* The relay answers the posted proposal.
ProposePostAnswer ==
    /\ UNCHANGED notPropVars
    /\ propPc = "post"
    /\ \E a \in Answers :
          /\ propAnswers' = Append(propAnswers, a)
          /\ IF a.ok
             THEN propCreated' = propCreated + 1 /\ UNCHANGED propError
             ELSE /\ UNCHANGED propCreated
                  /\ propError' = ErrorOf(IF propPath = "js" THEN "send"
                                         ELSE "proposeTransactionFallback", a)
    /\ propPc' = "done"
    /\ UNCHANGED <<propPath, propSent>>

NextPropose ==
    \/ ProposeStart
    \/ SdkSendAnswer
    \/ ProposeInfoOk
    \/ ProposeInfoFails
    \/ ProposePostAnswer

SpecPropose == Init /\ [][NextPropose]_vars

\* ---- properties of executeTransaction ------------------------------------
Range(s) == {s[i] : i \in DOMAIN s}

\* The relay's transaction has been read by this call.
Fetched ==
    /\ pc \notin {"idle", "fetch"}
    /\ result # "Failed to get transaction details"

Attempted == "execTransaction" \in Range(chainCalls)

\* The threshold of a transaction: confirmationsRequired, a missing or zero
\* value counting as 1.
ThresholdOrOne(tx) ==
    IF tx.confirmationsRequired >= 1 THEN tx.confirmationsRequired ELSE 1

C2_StrictlyAscendingOwners ==
    \A i \in 1..(Len(signatures) - 1) :
        localeCompare(toLowerCase(signatures[i].owner),
                      toLowerCase(signatures[i + 1].owner)) = -1

\* The confirmations of a list with a non-empty owner and a non-empty
\* signature of exactly 65 bytes (130 hex characters, prefixed or not).
Accepted65(confirmations) ==
    {i \in DOMAIN confirmations :
        /\ Len(confirmations[i].owner) > 0
        /\ confirmations[i].signature.hex = 130}

\* The confirmations with a non-empty owner and a non-empty signature of
\* another length.
WrongLength(confirmations) ==
    {i \in DOMAIN confirmations :
        /\ Len(confirmations[i].owner) > 0
        /\ confirmations[i].signature.pfx \/ confirmations[i].signature.hex > 0
        /\ confirmations[i].signature.hex # 130}

C4_OneChunkPerOwner ==
    \A i, j \in DOMAIN signatures :
        i # j => toLowerCase(signatures[i].owner) # toLowerCase(signatures[j].owner)

\* C7: whenever execTransaction has been sent, the blob holds at least
\* confirmationsRequired signatures.
C7_BlobMeetsThreshold ==
    Attempted => Len(signatures) >= ThresholdOrOne(txData)

\* The owners of a confirmation list, owners equal ignoring case being one.
DistinctOwners(tx) ==
    {toLowerCase(tx.confirmations[i].owner) : i \in DOMAIN tx.confirmations}

\* C5: a rendered transaction is offered for execution (Execute button,
\* status "Ready to Execute") exactly when the number of distinct owners
\* that confirmed it is at least its threshold and it is not executed.
C5_ExecutableIffDistinctOwners ==
    \A i \in DOMAIN cards :
        LET tx == cards[i].tx
            ready == /\ Cardinality(DistinctOwners(tx)) >= ThresholdOrOne(tx)
                     /\ ~tx.isExecuted
        IN  /\ (cards[i].status = "Ready to Execute") <=> ready
            /\ tx.safeTxHash # "" => (cards[i].executeButton <=> ready)

\* C6: the stored pending list holds no executed transaction.
C6_NoExecutedPending ==
    \A i \in DOMAIN pendingTransactions : ~pendingTransactions[i].isExecuted

\* C9: when the relay answered the propose request with HTTP 400, the client
\* sent no further propose request, no transaction was created, and the
\* error of the finished call carries the body of that answer.
C9_NoSecondProposeAfter400 ==
    (propAnswers # <<>> /\ propAnswers[1].status = 400) =>
      /\ propSent = 1
      /\ propCreated = 0
      /\ propPc = "done" => propError.body = propAnswers[1].body

\* C10: the error a relay call hands to its caller on a response that is not
\* ok carries the HTTP status and the response body.
C10_ErrorCarriesStatusAndBody ==
    (relayPc = "answered" /\ ~relayResp.ok) =>
      /\ relayError.status = relayResp.status
      /\ relayError.body = relayResp.body

\* C8: when gas estimation raised an error the call went on to send
\* execTransaction with a gas limit of exactly 500000, and neither the result
\* nor the message shown is an error of the estimation.
C8_FallbackGas ==
    estFailed =>
      /\ pc \in {"submit", "wait", "done"}
      /\ Attempted
      /\ gasLimit = 500000
      /\ result \in {"none", "success", "Chain transaction failed"}
      /\ shown \in {"none", "Transaction executed successfully!",
                     "Error executing transaction: Chain transaction failed"}

\* C8 witness: a call whose gas estimation failed has ended in success.
C8_Witness == estFailed /\ result = "success"

\* ---- properties of confirmTransaction and of the polls ---------------------
\* C11: a confirmTransaction for an owner who is among the cached
\* confirmations of the transaction sends no request to the confirmations
\* endpoint.
C11_NoPostForConfirmedOwner ==
    ( /\ confPc # "idle"
      /\ confSigner # <<>>
      /\ toLowerCase(confSigner) \in DistinctOwners(confTx) ) => confPosts = 0

\* C14: at most one refreshPendingTransactions awaits its list at a time.
C14_PollsNeverOverlap == refreshing <= 1

\* C12: a call of executeTransaction on a transaction the relay reports as
\* executed has made no chain call.
C12_NoChainCallWhenExecuted ==
    txData.isExecuted => chainCalls = <<>>

\* ---- properties of the configuration ---------------------------------------
\* C15: no item of the configuration in localStorage holds the private key.
C15_KeyNeverStored ==
    \A k \in DOMAIN store : "privateKey" \notin DOMAIN store[k]

\* A configuration with a transaction-service URL, an RPC URL that is a URL,
\* a Safe address of 40 hex digits and a key of 64 hex digits.
WellFormedConfig(c) ==
    /\ c # <<>>
    /\ c.txServiceUrl = GoodUrl
    /\ c.rpcUrl = GoodUrl
    /\ c.safeAddress.pfx /\ c.safeAddress.body = 40 /\ c.safeAddress.hex
    /\ c.privateKey.body = 64 /\ c.privateKey.hex

\* C19: a connect that has made a network call runs on a configuration
\* without a missing or malformed part.
C19_NoNetworkCallOnBadConfig ==
    (connPc # "idle" /\ netCalls # <<>> /\ Head(netCalls) # "deploySafe")
        => WellFormedConfig(config)

\* C16: no HTTP request of the client carries the private key, neither in
\* its URL nor in its body, and the body of a confirmation request holds
\* nothing but the signature and the owner address.
C16_NoRequestCarriesKey ==
    relayPc # "idle" =>
      /\ \A i \in DOMAIN relayReq.url : relayReq.url[i] # KeyValue(relayKey)
      /\ \A f \in DOMAIN relayReq.body :
            f # "privateKey" /\ relayReq.body[f] # KeyValue(relayKey)
      /\ relayCall \in {"confirm", "confirmTransactionFallback"} =>
            /\ DOMAIN relayReq.body \subseteq {"signature", "owner"}
            /\ "signature" \in DOMAIN relayReq.body

\* A confirmation request of SafeClient.confirm is in flight with the
\* signature and the owner address in its body.
C16_Witness ==
    /\ relayPc = "waiting"
    /\ relayCall = "confirm"
    /\ relayKey = "keyA"
    /\ DOMAIN relayReq.body = {"signature", "owner"}
    /\ relayReq.body.owner = AddressOf("keyA")

\* C17: two runs of the hash code on the same inputs return the same digest,
\* and two runs on inputs that differ in one field (to, value, data,
\* operation, safeTxGas, baseGas, gasPrice, gasToken, refundReceiver, nonce,
\* chainId, safeAddress) return different digests.
C17_DigestChangesWithAnyField ==
    Len(hashInputs) = 2 =>
      (hashInputs[1] = hashInputs[2]) <=> (hashDigests[1] = hashDigests[2])

\* C18: when the hash the Safe contract computed for the transaction differs
\* from the safeTxHash the relay reported, the call has stopped with the
\* error HashMismatch and execTransaction was not sent.
C18_HashMismatchStops ==
    txHash = "other" =>
      /\ pc = "done"
      /\ result = "HashMismatch"
      /\ ~Attempted

C21_AlreadyExecutedIsBenign ==
    (pc = "done" /\ txData.isExecuted) =>
      /\ chainCalls = <<>>
      /\ shown = "none"

\* C22: at most one refresh timer is active, no timer is active while
\* polling is stopped, paused or cleaned up, and no timer started a refresh
\* in that time.
C22_SingleCancellableTimer ==
    /\ Cardinality(timers) <= 1
    /\ autoStopped => timers = {}
    /\ ~tickAfterStop

\* Polling was started twice, a timer started a refresh, and polling was
\* then cleaned up.
C22_Witness ==
    /\ mgr = "js"
    /\ autoStopped
    /\ nextTimer > 2
    /\ refreshing > 0
    /\ timers = {}

\* C23: the cached Safe info is never used after a successful execute or
\* propose without having been read again, and it then holds the Safe's
\* nonce.
C23_CacheRereadBeforeUse ==
    /\ ~staleUse
    /\ (safeInfo # <<>> /\ sinceRead = 0) => safeInfo.nonce = safeNonce

\* C24: a refresh that fails leaves the interval timer as it was: a timer
\* that was active stays active and is still the one held in
\* this.refreshInterval, so its next tick starts a refresh.
C24_FailureKeepsPolling ==
    [][RefreshFails => /\ timers' = timers
                       /\ refreshInterval' = refreshInterval
                       /\ autoStopped' = autoStopped]_vars

\* A refresh of the TypeScript manager failed, the timer is active and a
\* refresh started by it is waiting for its list.
C24_Witness ==
    /\ refreshError = "Failed to load pending transactions"
    /\ timers # {}
    /\ ~autoStopped
    /\ refreshing = MaxInflight

\* C25: a call of executeTransaction that has submitted execTransaction and
\* waits for the receipt ends, with success or with an error.
C25_ExecuteTerminates == (pc = "wait") ~> (pc = "done")

\* C26: no call of initializeApp is started from within connectToSafe: the
\* fallback path of a failed Safe-info fetch ends the connection attempt.
C26_NoChainedReconnect == reconnects = 0

\* C27: the status is 'Connected' only with Safe info that came from the
\* SDK or from the relay.
C27_ConnectedOnlyWithSafeInfo ==
    connShown = "Connected" => infoSource \in {"sdk", "relay"}

\* C28: confirm with a key has handed the proposed transaction to
\* safeClient.confirm exactly when it is in the pending list, and has
\* handed over no other transaction.
C28_ConfirmsProposedWherever ==
    (scriptPc = "done" /\ scriptPk) =>
      /\ \A i \in DOMAIN scriptConfirmed : scriptConfirmed[i] = scriptTarget
      /\ (\E i \in DOMAIN scriptList : scriptList[i] = scriptTarget)
            <=> scriptConfirmed = <<scriptTarget>>

\* C29: the stored pending list is never overwritten by a refresh that was
\* started before the one whose result is stored.
C29_NewestRefreshWins == [][storedFrom' >= storedFrom]_vars

\* C30: a refresh that fails leaves the stored pending list and its cards
\* as they were.
C30_FailedRefreshKeepsList ==
    [][RefreshFails => /\ pendingTransactions' = pendingTransactions
                       /\ cards' = cards]_vars

====
